---- MODULE Spec2Model ----
(***************************************************************************)
(* SmartDB backend: the SQL executor (models/sql/sql_executor.py), its     *)
(* statement splitter, the four API handlers of app.py, and the two SQL    *)
(* synthesizers (models/nlp/nl_to_sql.py, image_processing/er_to_sql.py).  *)
(*                                                                         *)
(* Text is modelled as a sequence of one-character strings, so that        *)
(* strip / startswith / endswith / split / upper are computed as Python    *)
(* computes them.                                                          *)
(***************************************************************************)
EXTENDS Integers, Sequences, FiniteSets, TLC

VARIABLES
    ex,         \* the long-lived SQLExecutor instance: db_engine, db_connection, temp_db_file
    conns,      \* every sqlite3 connection ever opened, in creation order
    files,      \* the database files on disk: file -> committed content
    ntemp,      \* number of temporary files created so far (names the next one)
    nexec,      \* number of execute() calls so far (tags the effects of a script)
    failed,     \* tags of the scripts whose execute() stopped at a raising statement
    last,       \* what the last call on the instance did and returned
    resp,       \* what the last API request did and returned
    splitLines, \* splitter harness: the lines the script was written from
    splitIn,    \* splitter harness: the script
    splitOut,   \* splitter harness: the result, once computed
    synthIn,    \* synthesizer harness: the schema description
    synthOut    \* synthesizer harness: what the two converters emit, once computed

vars == <<ex, conns, files, ntemp, nexec, failed, last, resp, splitLines, splitIn, splitOut,
          synthIn, synthOut>>
mainVars == <<ex, conns, files, ntemp, nexec, failed, last, resp>>
splitVars == <<splitLines, splitIn, splitOut>>
synthVars == <<synthIn, synthOut>>

----------------------------------------------------------------------------
(* Bounds of the model *)

\* connections the instance opens in one behaviour
MaxConns == 2
\* execute() calls on the instance in one behaviour
MaxExec == 2
\* API requests that open a database in one behaviour of the server
MaxRequests == 2
\* lines of a script handed to the splitter harness
MaxLines == 3
\* attributes of the entity handed to the synthesizer harness on its own
MaxAttrs == 3
\* entities of a schema description handed to the synthesizer harness
MaxEntities == 2
\* relationships of a schema description handed to the synthesizer harness
MaxRels == 2

----------------------------------------------------------------------------
(* Python str operations on character sequences *)

Whitespace == {" ", "\t", "\r", "\n"}

\* the first position from i on that holds no whitespace (Len(s) + 1 when none)
RECURSIVE FirstInk(_, _)
FirstInk(s, i) ==
    IF i > Len(s) \/ s[i] \notin Whitespace THEN i ELSE FirstInk(s, i + 1)

\* the last position up to i that holds no whitespace (0 when none)
RECURSIVE LastInk(_, _)
LastInk(s, i) ==
    IF i < 1 \/ s[i] \notin Whitespace THEN i ELSE LastInk(s, i - 1)

\* str.strip()
Strip(s) == SubSeq(s, FirstInk(s, 1), LastInk(s, Len(s)))

\* str.startswith(p)
StartsWith(s, p) == Len(s) >= Len(p) /\ SubSeq(s, 1, Len(p)) = p

\* str.endswith(p)
EndsWith(s, p) == Len(s) >= Len(p) /\ SubSeq(s, Len(s) - Len(p) + 1, Len(s)) = p

UpperChar(c) ==
    CASE c = "s" -> "S" [] c = "e" -> "E" [] c = "l" -> "L" [] c = "c" -> "C"
      [] c = "t" -> "T" [] c = "i" -> "I" [] c = "n" -> "N" [] c = "r" -> "R"
      [] c = "a" -> "A" [] c = "w" -> "W" [] c = "h" -> "H" [] c = "o" -> "O"
      [] OTHER -> c

\* str.upper()
Upper(s) == [i \in 1..Len(s) |-> UpperChar(s[i])]

\* str.split("\n"): the pieces between newlines; "" splits to [""]
SplitNewline(s) ==
    LET breaks == {i \in 1..Len(s) : s[i] = "\n"}
        \* the k-th newline; the 0-th is before the text, the last one after it
        Break(k) ==
            IF k = 0 THEN 0
            ELSE IF k > Cardinality(breaks) THEN Len(s) + 1
            ELSE CHOOSE i \in breaks : Cardinality({j \in breaks : j < i}) = k - 1
    IN [k \in 1..(Cardinality(breaks) + 1) |-> SubSeq(s, Break(k - 1) + 1, Break(k) - 1)]

\* "\n".join(lines)
RECURSIVE JoinNewline(_)
JoinNewline(lines) ==
    IF lines = <<>> THEN <<>>
    ELSE IF Len(lines) = 1 THEN lines[1]
    ELSE lines[1] \o <<"\n">> \o JoinNewline(Tail(lines))

----------------------------------------------------------------------------
(* SQLExecutor._split_sql_statements *)

\* the lines the loop skips: comments and blank lines (line is already stripped)
SkipNoHash(line) == StartsWith(line, <<"-", "-">>) \/ line = <<>>
IsSkipped(line) ==
    StartsWith(line, <<"-", "-">>) \/ StartsWith(line, <<"#">>) \/ line = <<>>

\* the for loop: statements and current_statement after lines i..
RECURSIVE SplitLoop(_, _, _, _)
SplitLoop(lines, i, statements, current_statement) ==
    IF i > Len(lines) THEN
        \* add the last statement if it doesn't end with a semicolon
        IF Strip(current_statement) # <<>>
        THEN Append(statements, Strip(current_statement))
        ELSE statements
    ELSE
        LET line == Strip(lines[i]) IN
        IF IsSkipped(line) THEN SplitLoop(lines, i + 1, statements, current_statement)
        ELSE
            LET cur == current_statement \o <<" ">> \o line IN
            IF EndsWith(line, <<";">>)
            THEN SplitLoop(lines, i + 1, Append(statements, Strip(cur)), <<>>)
            ELSE SplitLoop(lines, i + 1, statements, cur)

split_sql_statements(sql_code) == SplitLoop(SplitNewline(sql_code), 1, <<>>, <<>>)

----------------------------------------------------------------------------
(* The lines scripts are written from *)

L_select1 == <<"S", "E", "L", "E", "C", "T", " ", "1", ";">>
L_select2 == <<"S", "E", "L", "E", "C", "T", " ", "2", ";">>
L_selectLow == <<" ", "s", "e", "l", "e", "c", "t", " ", "1", ";", " ">>
L_comment == <<"-", "-", " ", "c", "o", "m", "m", "e", "n", "t">>
L_hash == <<"\t", "#", "x", ";">>
L_blank == <<" ", " ">>
L_empty == <<>>
L_insert == <<"I", "N", "S", "E", "R", "T", " ", "1", ";">>
L_insertOpen == <<"I", "N", "S", "E", "R", "T">>
L_value == <<" ", "1", " ", ";", "\r">>
L_create == <<"C", "R", "E", "A", "T", "E", " ", "t", ";">>
L_with == <<"W", "I", "T", "H", " ", "q", ";">>
L_bogus == <<"B", "O", "G", "U", "S", ";">>
L_dash == <<"-", " ", "1">>

SplitVocabulary ==
    {L_select1, L_select2, L_selectLow, L_comment, L_hash, L_blank, L_empty,
     L_insertOpen, L_value, L_dash}

LineSeqs(S, n) == UNION {[1..k -> S] : k \in 0..n}

----------------------------------------------------------------------------
(* The splitter harness: the script is drawn, then split *)

InitSplit ==
    /\ splitLines \in LineSeqs(SplitVocabulary, MaxLines)
    /\ splitIn = JoinNewline(splitLines)
    /\ splitOut = <<"pending">>

RunSplit ==
    /\ splitOut = <<"pending">>
    /\ splitOut' = <<"done", split_sql_statements(splitIn)>>
    /\ UNCHANGED <<splitLines, splitIn>>
    /\ UNCHANGED <<mainVars, synthVars>>

----------------------------------------------------------------------------
(* The sqlite3 engine, as far as the executor observes it *)

\* Python None for db_connection; connections are numbered from 1 in conns
None == 0
\* Python None for temp_db_file
NoFile == [kind |-> "none", n |-> 0]
\* the database file a truthy db_name that can be opened names
NamedFile == [kind |-> "named", n |-> 0]
ReusedTempFile(n) == [kind |-> "temp", n |-> 1]
\* the n-th file made by tempfile.NamedTemporaryFile(delete=False, suffix='.db')
TempFile(n) == [kind |-> "temp", n |-> n]

\* db_name arguments: None/"" (falsy), a path that opens, a path that does not
DbNames == {"", "app.db", "/nodir/x.db"}
Openable(db_name) == db_name = "app.db"

Engines == {"sqlite", "mysql"}

World == [conns |-> conns, files |-> files, ntemp |-> ntemp]

\* whether the statement starts with the keyword, in any case
HasKeyword(stmt, keyword) ==
    /\ Len(stmt) >= Len(keyword)
    /\ Upper(SubSeq(stmt, 1, Len(keyword))) = keyword

\* what cursor.execute does with a statement, by its leading keyword
StmtClass(stmt) ==
    IF HasKeyword(stmt, <<"S", "E", "L", "E", "C", "T">>) THEN "rows"
    ELSE IF HasKeyword(stmt, <<"W", "I", "T", "H">>) THEN "rows"
    ELSE IF HasKeyword(stmt, <<"I", "N", "S", "E", "R", "T">>) THEN "write"
    ELSE IF HasKeyword(stmt, <<"C", "R", "E", "A", "T", "E">>) THEN "ddl"
    ELSE "error"

\* another open connection holds a write transaction on the same file
Locked(w, c) ==
    \E d \in 1..Len(w.conns) :
        /\ d # c
        /\ w.conns[d].open
        /\ w.conns[d].intx
        /\ w.conns[d].file = w.conns[c].file

Committed(w, f) == IF f \in DOMAIN w.files THEN w.files[f] ELSE {}

\* what connection c sees: the file's committed content and its own transaction
Visible(w, c) == Committed(w, w.conns[c].file) \cup w.conns[c].pending

WriteFile(w, f, content) ==
    IF f \in DOMAIN w.files
    THEN [w EXCEPT !.files = [g \in DOMAIN w.files |-> IF g = f THEN content ELSE w.files[g]]]
    ELSE w

\* sqlite3.connect(path): a new connection, the file created when missing
OpenConnection(w, f, owner) ==
    LET withFile ==
            IF f \in DOMAIN w.files THEN w.files
            ELSE [g \in DOMAIN w.files \cup {f} |-> IF g = f THEN {} ELSE w.files[g]]
    IN [w EXCEPT !.files = withFile,
                 !.conns = Append(w.conns,
                     [file |-> f, open |-> TRUE, intx |-> FALSE, pending |-> {},
                      fk |-> FALSE, owner |-> owner])]

\* Connection.close(): an open transaction is rolled back
CloseConnection(w, c) ==
    [w EXCEPT !.conns[c].open = FALSE, !.conns[c].intx = FALSE, !.conns[c].pending = {}]

\* cursor.execute(stmt) on connection c; eff tags what the statement writes.
\* INSERT opens a transaction implicitly; CREATE joins an open transaction and is
\* written through when none is open.
CursorExecute(w, c, stmt, eff) ==
    LET cls == StmtClass(stmt)
        conn == w.conns[c]
    IN
    IF cls = "error" THEN
        [raises |-> TRUE, err |-> "syntax error", w |-> w, rows |-> {}]
    ELSE IF cls = "rows" THEN
        [raises |-> FALSE, err |-> "", w |-> w,
         rows |-> {r \in Visible(w, c) : r.kind = "write"}]
    ELSE IF Locked(w, c) THEN
        [raises |-> TRUE, err |-> "database is locked", w |-> w, rows |-> {}]
    ELSE IF cls = "write" \/ conn.intx THEN
        [raises |-> FALSE, err |-> "",
         w |-> [w EXCEPT !.conns[c].intx = TRUE,
                         !.conns[c].pending = conn.pending \cup {eff}],
         rows |-> {}]
    ELSE
        [raises |-> FALSE, err |-> "",
         w |-> WriteFile(w, conn.file, Committed(w, conn.file) \cup {eff}),
         rows |-> {}]

\* Connection.commit() that succeeds
CommitConnection(w, c) ==
    LET conn == w.conns[c] IN
    IF conn.intx
    THEN [WriteFile(w, conn.file, Committed(w, conn.file) \cup conn.pending)
            EXCEPT !.conns[c].intx = FALSE, !.conns[c].pending = {}]
    ELSE w

----------------------------------------------------------------------------
(* SQLExecutor *)

\* __init__
NewExecutor(db_engine) ==
    [db_engine |-> db_engine, db_connection |-> None, temp_db_file |-> NoFile]

AnyEngine(db_engine) == TRUE
EngineSupported(db_engine) == db_engine = "sqlite"

\* connect(db_name): [e, w, ret]
connect(e, w, db_name, owner) ==
    IF EngineSupported(e.db_engine) THEN
        IF db_name # "" THEN
            IF Openable(db_name) THEN
                LET w1 == OpenConnection(w, NamedFile, owner)
                    c == Len(w1.conns)
                IN [e |-> [e EXCEPT !.db_connection = c],
                    w |-> [w1 EXCEPT !.conns[c].fk = TRUE],
                    ret |-> TRUE]
            ELSE
                \* sqlite3.connect raises before anything is assigned
                [e |-> e, w |-> w, ret |-> FALSE]
        ELSE
            LET t == TempFile(w.ntemp + 1)
                w1 == OpenConnection([w EXCEPT !.ntemp = w.ntemp + 1], t, owner)
                c == Len(w1.conns)
            IN [e |-> [e EXCEPT !.temp_db_file = t, !.db_connection = c],
                w |-> [w1 EXCEPT !.conns[c].fk = TRUE],
                ret |-> TRUE]
    ELSE
        \* NotImplementedError, caught by the except clause
        [e |-> e, w |-> w, ret |-> FALSE]

\* disconnect(): [e, w]
disconnect(e, w) ==
    LET w1 == IF e.db_connection # None THEN CloseConnection(w, e.db_connection) ELSE w
        e1 == [e EXCEPT !.db_connection = None]
    IN
    IF e1.temp_db_file # NoFile /\ e1.temp_db_file \in DOMAIN w1.files
    THEN [e |-> [e1 EXCEPT !.temp_db_file = NoFile],
          w |-> [w1 EXCEPT !.files = [g \in DOMAIN w1.files \ {e1.temp_db_file} |-> w1.files[g]]]]
    ELSE [e |-> e1, w |-> w1]

LogPrefixLen == 50

\* f"{stmt[:50]}{'...' if len(stmt) > 50 else ''}"
Trunc(stmt) ==
    SubSeq(stmt, 1, IF Len(stmt) < LogPrefixLen THEN Len(stmt) ELSE LogPrefixLen)
        \o (IF Len(stmt) > LogPrefixLen THEN <<".", ".", ".">> ELSE <<>>)

IsSelectCaseSensitive(stmt) == StartsWith(Strip(stmt), <<"S", "E", "L", "E", "C", "T">>)
\* stmt.strip().upper().startswith("SELECT")
IsSelect(stmt) == StartsWith(Upper(Strip(stmt)), <<"S", "E", "L", "E", "C", "T">>)

LogErrorNoMessage(log, stmt, err) ==
    Append(log, <<"Error executing statement: ", Trunc(stmt)>>)
\* the two log.append calls of the except clause
LogError(log, stmt, err) ==
    Append(Append(log, <<"Error executing statement: ", Trunc(stmt)>>),
           <<"Error message: ", err>>)

\* the for loop over the statements, from statement i on
RECURSIVE ExecLoop(_, _, _, _, _, _, _)
ExecLoop(stmts, i, w, c, tag, results, log) ==
    IF i > Len(stmts) THEN
        [w |-> w, results |-> results, log |-> log, raised |-> 0, ran |-> Len(stmts), err |-> ""]
    ELSE
        LET stmt == stmts[i] IN
        IF Strip(stmt) = <<>> THEN ExecLoop(stmts, i + 1, w, c, tag, results, log)
        ELSE
            LET r == CursorExecute(w, c, stmt, [x |-> tag, i |-> i, kind |-> StmtClass(stmt)]) IN
            IF r.raises THEN
                [w |-> r.w, results |-> results, log |-> LogError(log, stmt, r.err),
                 raised |-> i, ran |-> i, err |-> r.err]
            ELSE IF IsSelect(stmt) THEN
                ExecLoop(stmts, i + 1, r.w, c, tag,
                    Append(results, [of |-> i, columns |-> <<"1">>, rows |-> r.rows]),
                    Append(Append(log, <<"Successfully executed: ", Trunc(stmt)>>),
                           <<"Retrieved rows", Cardinality(r.rows)>>))
            ELSE
                ExecLoop(stmts, i + 1, r.w, c, tag, results,
                    Append(log, <<"Successfully executed: ", Trunc(stmt)>>))

\* the dict execute returns; a failure dict has no "results" key (results is <<>> here)
ResultDict(success, message, log, results) ==
    [success |-> success, message |-> message, log |-> log, results |-> results]

\* execute after the statements ran: l is what the loop left. commit_raises: whether
\* Connection.commit() raises, which it can only do with a transaction open.
ExecuteFinish(e, statements, l, commit_raises) ==
    IF l.raised # 0 THEN
        \* don't commit and return error
        [e |-> e, w |-> l.w,
         ret |-> ResultDict(FALSE, l.err, l.log, <<>>),
         stmts |-> statements, ran |-> l.ran, raised |-> l.raised, err |-> l.err,
         commits |-> 0, connected |-> TRUE, committed |-> FALSE]
    ELSE IF commit_raises /\ l.w.conns[e.db_connection].intx THEN
        \* the outer except clause
        [e |-> e, w |-> l.w,
         ret |-> ResultDict(FALSE, "commit failed", l.log, <<>>),
         stmts |-> statements, ran |-> l.ran, raised |-> 0, err |-> "commit failed",
         commits |-> 1, connected |-> TRUE, committed |-> FALSE]
    ELSE
        [e |-> e, w |-> CommitConnection(l.w, e.db_connection),
         ret |-> ResultDict(TRUE, "SQL execution completed successfully", l.log, l.results),
         stmts |-> statements, ran |-> l.ran, raised |-> 0, err |-> "",
         commits |-> 1, connected |-> TRUE, committed |-> TRUE]

\* execute after the implicit connect, k being what connect returned
ExecuteConnected(k, statements, tag, commit_raises) ==
    IF ~k.ret THEN
        [e |-> k.e, w |-> k.w,
         ret |-> ResultDict(FALSE, "Failed to connect to database", <<>>, <<>>),
         stmts |-> <<>>, ran |-> 0, raised |-> 0, err |-> "", commits |-> 0,
         connected |-> FALSE, committed |-> FALSE]
    ELSE
        ExecuteFinish(k.e, statements,
                      ExecLoop(statements, 1, k.w, k.e.db_connection, tag, <<>>, <<>>),
                      commit_raises)

\* execute(sql_code): [e, w, ret] and what the call did (stmts, ran, raised, err,
\* commits, connected, committed)
execute(e, w, sql_code, tag, commit_raises, owner) ==
    ExecuteConnected(IF e.db_connection = None THEN connect(e, w, "", owner)
                     ELSE [e |-> e, w |-> w, ret |-> TRUE],
                     split_sql_statements(sql_code), tag, commit_raises)

\* get_schema with the connection check replaced by execute's implicit connect
get_schema_implicit(e, w, owner) ==
    LET k == IF e.db_connection = None THEN connect(e, w, "", owner)
             ELSE [e |-> e, w |-> w, ret |-> TRUE]
    IN
    IF ~k.ret THEN
        [e |-> k.e, w |-> k.w,
         ret |-> [success |-> FALSE, message |-> "Not connected to a database", tables |-> {}]]
    ELSE
        [e |-> k.e, w |-> k.w,
         ret |-> [success |-> TRUE, message |-> "",
                  tables |-> {t \in Visible(k.w, k.e.db_connection) : t.kind = "ddl"}]]

\* get_schema(): [e, w, ret]; tables are the tables the connection sees
get_schema(e, w, owner) ==
    IF e.db_connection = None THEN
        [e |-> e, w |-> w,
         ret |-> [success |-> FALSE, message |-> "Not connected to a database", tables |-> {}]]
    ELSE
        [e |-> e, w |-> w,
         ret |-> [success |-> TRUE, message |-> "",
                  tables |-> {t \in Visible(w, e.db_connection) : t.kind = "ddl"}]]

----------------------------------------------------------------------------
(* The SQL synthesizers. SQL text is the concatenation of its fragments. *)

\* sep.join(parts), each part a text
RECURSIVE JoinText(_, _)
JoinText(parts, sep) ==
    IF parts = <<>> THEN <<>>
    ELSE IF Len(parts) = 1 THEN parts[1]
    ELSE parts[1] \o sep \o JoinText(Tail(parts), sep)

Attr(name, type, pk, nullable) ==
    [name |-> name, type |-> type, is_primary_key |-> pk, is_nullable |-> nullable]

ColumnDefKeyNotNull(attr) ==
    <<"    ", attr.name, " ", attr.type>>
        \o (IF attr.is_primary_key THEN <<" NOT NULL">> ELSE <<>>)
\* column_def of one attribute
ColumnDef(attr) ==
    <<"    ", attr.name, " ", attr.type>>
        \o (IF ~attr.is_nullable THEN <<" NOT NULL">> ELSE <<>>)

\* _generate_create_table, the same in both converters
generate_create_table(entity) ==
    LET attributes == entity.attributes
        primary_attrs == SelectSeq(attributes, LAMBDA a : a.is_primary_key)
        primary_keys == [i \in 1..Len(primary_attrs) |-> <<primary_attrs[i].name>>]
        column_defs == [i \in 1..Len(attributes) |-> ColumnDef(attributes[i])]
        columns ==
            IF primary_keys # <<>>
            THEN Append(column_defs,
                        <<"    PRIMARY KEY (">> \o JoinText(primary_keys, <<", ">>) \o <<")">>)
            ELSE column_defs
    IN <<"CREATE TABLE ", entity.name, " (\n">>
           \o JoinText(columns, <<",\n">>)
           \o <<"\n);\n\n">>

JunctionTableOneKey(entity1, entity2) ==
    <<"CREATE TABLE ", entity1, "_", entity2, " (\n",
      "    ", entity1, "_id INTEGER NOT NULL,\n",
      "    ", entity2, "_id INTEGER NOT NULL,\n",
      "    PRIMARY KEY (", entity1, "_id, ", entity2, "_id),\n",
      "    FOREIGN KEY (", entity1, "_id) REFERENCES ", entity1, " (id)\n",
      ");\n\n">>
\* the many_to_many branch, the same in both converters
JunctionTable(entity1, entity2) ==
    <<"CREATE TABLE ", entity1, "_", entity2, " (\n",
      "    ", entity1, "_id INTEGER NOT NULL,\n",
      "    ", entity2, "_id INTEGER NOT NULL,\n",
      "    PRIMARY KEY (", entity1, "_id, ", entity2, "_id),\n",
      "    FOREIGN KEY (", entity1, "_id) REFERENCES ", entity1, " (id),\n",
      "    FOREIGN KEY (", entity2, "_id) REFERENCES ", entity2, " (id)\n",
      ");\n\n">>

nl_generate_relationship_any_type(relationship) ==
    JunctionTable(relationship.entity1, relationship.entity2)
\* NLToSQLConverter._generate_relationship
nl_generate_relationship(relationship) ==
    IF relationship.type = "many_to_many"
    THEN JunctionTable(relationship.entity1, relationship.entity2)
    ELSE <<>>

\* ERToSQLConverter._generate_relationship
er_generate_relationship(relationship) ==
    LET entity1 == relationship.entity1
        entity2 == relationship.entity2
    IN
    IF relationship.type = "many_to_many" THEN JunctionTable(entity1, entity2)
    ELSE IF relationship.type = "many_to_one" THEN
        <<"-- Add foreign key to implement ", entity1, " to ", entity2, " relationship\n",
          "ALTER TABLE ", entity1, " ADD COLUMN ", entity2, "_id INTEGER;\n",
          "ALTER TABLE ", entity1, " ADD FOREIGN KEY (", entity2, "_id) REFERENCES ",
          entity2, " (id);\n\n">>
    ELSE IF relationship.type = "one_to_one" THEN
        <<"-- Add foreign key with unique constraint for one-to-one relationship\n",
          "ALTER TABLE ", entity1, " ADD COLUMN ", entity2, "_id INTEGER UNIQUE;\n",
          "ALTER TABLE ", entity1, " ADD FOREIGN KEY (", entity2, "_id) REFERENCES ",
          entity2, " (id);\n\n">>
    ELSE <<>>

\* NLToSQLConverter.generate_sql
nl_generate_sql(entities_data) ==
    JoinText([i \in 1..Len(entities_data.entities) |->
                 generate_create_table(entities_data.entities[i])], <<>>)
      \o JoinText([i \in 1..Len(entities_data.relationships) |->
                 nl_generate_relationship(entities_data.relationships[i])], <<>>)

\* ERToSQLConverter._generate_sql
er_generate_sql(schema_data) ==
    <<"-- SQL Generated from ER Diagram\n\n">>
      \o JoinText([i \in 1..Len(schema_data.entities) |->
                 generate_create_table(schema_data.entities[i])], <<>>)
      \o JoinText([i \in 1..Len(schema_data.relationships) |->
                 er_generate_relationship(schema_data.relationships[i])], <<>>)

\* NLToSQLConverter.extract_entities: the placeholder, whatever the description
extract_entities(text_description) ==
    [entities |->
        <<[name |-> "users",
           attributes |-> <<Attr("id", "INTEGER", TRUE, FALSE),
                            Attr("username", "TEXT", FALSE, FALSE)>>]>>,
     relationships |-> <<>>]

\* ERToSQLConverter._extract_schema_from_image: the placeholder, whatever the image
extract_schema_from_image(image) ==
    [entities |->
        <<[name |-> "product",
           attributes |-> <<Attr("id", "INTEGER", TRUE, FALSE),
                            Attr("name", "TEXT", FALSE, FALSE),
                            Attr("price", "REAL", FALSE, TRUE)>>],
          [name |-> "category",
           attributes |-> <<Attr("id", "INTEGER", TRUE, FALSE),
                            Attr("name", "TEXT", FALSE, FALSE)>>]>>,
     relationships |->
        <<[entity1 |-> "product", entity2 |-> "category", type |-> "many_to_one",
           attributes |-> <<>>]>>]

\* NLToSQLConverter.convert; the converter's db_engine is stored and never read
nl_convert(db_engine, text_description) == nl_generate_sql(extract_entities(text_description))

\* ERToSQLConverter.process_image on bytes PIL can open
er_process_image(db_engine, image) == er_generate_sql(extract_schema_from_image(image))

(* The synthesizer harness: a schema description is drawn, both converters run *)

SeqsUpTo(S, n) == UNION {[1..k -> S] : k \in 0..n}

DistinctNames(s) == \A i, j \in 1..Len(s) : i # j => s[i].name # s[j].name

AttrChoices ==
    {Attr("id", "INTEGER", TRUE, FALSE), Attr("code", "TEXT", TRUE, TRUE),
     Attr("name", "TEXT", FALSE, FALSE), Attr("price", "REAL", FALSE, TRUE),
     Attr("note", "TEXT", FALSE, TRUE)}

\* one entity with any attributes, no relationship
TableInputs ==
    {[entities |-> <<[name |-> n, attributes |-> a]>>, relationships |-> <<>>] :
        n \in {"product", "order_item"},
        a \in {s \in SeqsUpTo(AttrChoices, MaxAttrs) : DistinctNames(s)}}

EntityChoices ==
    {[name |-> "student",
      attributes |-> <<Attr("id", "INTEGER", TRUE, FALSE), Attr("name", "TEXT", FALSE, TRUE)>>],
     [name |-> "course",
      attributes |-> <<Attr("dept", "TEXT", TRUE, FALSE), Attr("nr", "INTEGER", TRUE, FALSE),
                       Attr("title", "TEXT", FALSE, FALSE)>>],
     [name |-> "room", attributes |-> <<>>]}

RelTypes == {"one_to_one", "one_to_many", "many_to_one", "many_to_many"}

\* a relationship between two entities, and one that owns an attribute
RelChoices ==
    {[entity1 |-> "student", entity2 |-> "course", type |-> t, attributes |-> <<>>] :
        t \in RelTypes}
    \cup {[entity1 |-> "course", entity2 |-> "room", type |-> t,
            attributes |-> <<Attr("since", "TEXT", FALSE, TRUE)>>] : t \in RelTypes}

\* entities and relationships; a relationship may name an entity that is not declared
SchemaInputs ==
    {[entities |-> e, relationships |-> r] :
        e \in {s \in SeqsUpTo(EntityChoices, MaxEntities) : DistinctNames(s)},
        r \in SeqsUpTo(RelChoices, MaxRels)}

InitSynth ==
    /\ synthIn \in TableInputs \cup SchemaInputs
    /\ synthOut = <<"pending">>

\* both converters on the schema, and each generator on each entity and relationship
RunSynth ==
    /\ synthOut = <<"pending">>
    /\ synthOut' = <<"done",
           [nl |-> nl_generate_sql(synthIn),
            er |-> er_generate_sql(synthIn),
            tables |-> [i \in 1..Len(synthIn.entities) |->
                           generate_create_table(synthIn.entities[i])],
            nl_rels |-> [i \in 1..Len(synthIn.relationships) |->
                            nl_generate_relationship(synthIn.relationships[i])],
            er_rels |-> [i \in 1..Len(synthIn.relationships) |->
                            er_generate_relationship(synthIn.relationships[i])]]>>
    /\ UNCHANGED synthIn
    /\ UNCHANGED <<mainVars, splitVars>>

----------------------------------------------------------------------------
(* State machine *)

NoExec == [stmts |-> <<>>, ran |-> 0, raised |-> 0, err |-> "", commits |-> 0,
           connected |-> FALSE, committed |-> FALSE, tag |-> 0]

\* whether a call on the instance that leaves e and w changed the instance's fields,
\* opened a connection or created or deleted a file
Changed(e, w) ==
    \/ e # ex
    \/ w.ntemp # ntemp
    \/ Len(w.conns) # Len(conns)
    \/ DOMAIN w.files # DOMAIN files

Init ==
    /\ ex \in {NewExecutor(g) : g \in Engines}
    /\ conns = <<>>
    /\ files = [g \in {} |-> {}]
    /\ ntemp = 0
    /\ nexec = 0
    /\ failed = {}
    /\ last = [op |-> "init", arg |-> <<>>, ret |-> <<>>, changed |-> FALSE, hadconn |-> FALSE,
               x |-> NoExec]
    /\ resp = [endpoint |-> "none"]
    /\ splitLines = <<>>
    /\ splitIn = <<>>
    /\ splitOut = <<"idle">>
    /\ synthIn = [entities |-> <<>>, relationships |-> <<>>]
    /\ synthOut = <<"idle">>

SetWorld(w) ==
    /\ conns' = w.conns
    /\ files' = w.files
    /\ ntemp' = w.ntemp

\* executor.connect(db_name) on the instance
Connect(db_name) ==
    /\ Len(conns) < MaxConns
    /\ \E r \in {connect(ex, World, db_name, "inst")} :
        /\ ex' = r.e
        /\ SetWorld(r.w)
        /\ last' = [op |-> "connect", arg |-> <<db_name>>, ret |-> <<r.ret>>,
                    changed |-> Changed(r.e, r.w),
                    hadconn |-> ex.db_connection # None, x |-> NoExec]
    /\ UNCHANGED <<nexec, failed, resp>>
    /\ UNCHANGED <<splitVars, synthVars>>

\* executor.disconnect() on the instance
Disconnect ==
    /\ \E r \in {disconnect(ex, World)} :
        /\ ex' = r.e
        /\ SetWorld(r.w)
        /\ last' = [op |-> "disconnect", arg |-> <<>>, ret |-> <<>>,
                    changed |-> Changed(r.e, r.w),
                    hadconn |-> ex.db_connection # None, x |-> NoExec]
    /\ UNCHANGED <<nexec, failed, resp>>
    /\ UNCHANGED <<splitVars, synthVars>>

ExecInfo(r, tag) ==
    [stmts |-> r.stmts, ran |-> r.ran, raised |-> r.raised, err |-> r.err,
     commits |-> r.commits, connected |-> r.connected, committed |-> r.committed,
     tag |-> tag]

\* the scripts handed to execute, each written as its lines
LongSelect ==
    <<<<"S", "E", "L", "E", "C", "T", " ", "1", ",", "2", ",", "3", ",", "4", ",", "5",
        ",", "6", ",", "7", ",", "8", ",", "9", ",", "1", ",", "2", ",", "3", ",">>,
      <<"4", ",", "5", ",", "6", ",", "7", ",", "8", ",", "9", ",", "1", ",", "2", ",",
        "3", ",", "4", ",", "5", ",", "6", ";">>>>

ExecScripts ==
    {JoinNewline(ls) : ls \in
        {<<L_insert, L_bogus, L_select1>>,
         <<L_selectLow, L_comment, L_with, L_insertOpen, L_value>>,
         <<L_create, L_insert, L_select1, L_select2>>,
         LongSelect \o <<L_create, L_bogus>>}}

\* executor.execute(sql_code) on the instance
Execute(sql_code, commit_raises) ==
    /\ nexec < MaxExec
    /\ ex.db_connection # None \/ Len(conns) < MaxConns
    /\ \E r \in {execute(ex, World, sql_code, nexec + 1, commit_raises, "inst")} :
        /\ ex' = r.e
        /\ SetWorld(r.w)
        /\ nexec' = nexec + 1
        /\ failed' = IF r.raised # 0 THEN failed \cup {nexec + 1} ELSE failed
        /\ last' = [op |-> "execute", arg |-> <<>>, ret |-> <<r.ret>>,
                    changed |-> Changed(r.e, r.w),
                    hadconn |-> ex.db_connection # None, x |-> ExecInfo(r, nexec + 1)]
    /\ UNCHANGED resp
    /\ UNCHANGED <<splitVars, synthVars>>

\* executor.get_schema() on the instance
GetSchema ==
    /\ \E r \in {get_schema(ex, World, "inst")} :
        /\ ex' = r.e
        /\ SetWorld(r.w)
        /\ last' = [op |-> "get_schema", arg |-> <<>>, ret |-> <<r.ret>>,
                    changed |-> Changed(r.e, r.w),
                    hadconn |-> ex.db_connection # None, x |-> NoExec]
    /\ UNCHANGED <<nexec, failed, resp>>
    /\ UNCHANGED <<splitVars, synthVars>>

\* The interpreter finalizes a connection object nothing refers to any more, which
\* closes it. When this happens is the interpreter's choice (CPython: at once).
Finalize(c) ==
    /\ c \in 1..Len(conns)
    /\ conns[c].open
    /\ c # ex.db_connection
    /\ conns' = CloseConnection(World, c).conns
    /\ UNCHANGED <<ex, files, ntemp, nexec, failed, last, resp>>
    /\ UNCHANGED <<splitVars, synthVars>>

----------------------------------------------------------------------------
(* The API handlers of app.py. Each builds its own converter or executor, which
   nothing refers to once the handler has returned. *)

\* SQLResponse: an Optional field is <<>> for None and <<value>> otherwise
SQLResponse(sql_code, execution_log, error, results) ==
    [sql_code |-> sql_code, execution_log |-> execution_log, error |-> error,
     results |-> results]

\* raise HTTPException(status_code=500, detail=...)
HTTPException(detail) == [status |-> 500, detail |-> detail]

Request(endpoint, db_engine, status, body, e, w) ==
    [endpoint |-> endpoint, db_engine |-> db_engine, status |-> status, body |-> body,
     conn |-> e.db_connection, temp |-> e.temp_db_file,
     nconns |-> Len(w.conns), files |-> DOMAIN w.files]

Descriptions == {"a shop with users", ""}

\* POST /api/nl-to-sql
ApiNlToSql(db_engine, text_description) ==
    /\ resp' = Request("nl-to-sql", db_engine, 200,
                       SQLResponse(nl_convert(db_engine, text_description), <<>>, <<>>, <<>>),
                       NewExecutor(db_engine), World)
    /\ UNCHANGED <<ex, conns, files, ntemp, nexec, failed, last>>
    /\ UNCHANGED <<splitVars, synthVars>>

\* POST /api/er-to-sql; image_opens: whether PIL can open the uploaded bytes
ApiErToSql(db_engine, image_opens) ==
    /\ resp' = IF image_opens
               THEN Request("er-to-sql", db_engine, 200,
                        SQLResponse(er_process_image(db_engine, "image"), <<>>, <<>>, <<>>),
                        NewExecutor(db_engine), World)
               ELSE Request("er-to-sql", db_engine, 500,
                        HTTPException("cannot identify image file"),
                        NewExecutor(db_engine), World)
    /\ UNCHANGED <<ex, conns, files, ntemp, nexec, failed, last>>
    /\ UNCHANGED <<splitVars, synthVars>>

\* POST /api/execute-sql
ApiExecuteSql(db_engine, sql_code, commit_raises) ==
    /\ nexec < MaxRequests
    /\ Len(conns) < MaxRequests
    /\ \E r \in {execute(NewExecutor(db_engine), World, sql_code, nexec + 1,
                           commit_raises, "req")} :
        /\ SetWorld(r.w)
        /\ nexec' = nexec + 1
        /\ failed' = IF r.raised # 0 THEN failed \cup {nexec + 1} ELSE failed
        /\ resp' = IF r.ret.success
                   THEN Request("execute-sql", db_engine, 200,
                            SQLResponse(sql_code, <<r.ret.log>>, <<>>, <<r.ret.results>>),
                            r.e, r.w)
                   ELSE Request("execute-sql", db_engine, 200,
                            SQLResponse(sql_code, <<r.ret.log>>, <<r.ret.message>>, <<>>),
                            r.e, r.w)
    /\ UNCHANGED <<ex, last>>
    /\ UNCHANGED <<splitVars, synthVars>>

\* GET /api/schema; the HTTPException raised for a failed get_schema is caught by
\* the handler's own except clause and raised again with detail str(e)
ApiSchema(db_engine) ==
    /\ Len(conns) < MaxRequests
    /\ \E r \in {get_schema(connect(NewExecutor(db_engine), World, "", "req").e,
                              connect(NewExecutor(db_engine), World, "", "req").w, "req")} :
        /\ SetWorld(r.w)
        /\ resp' = IF r.ret.success
                   THEN Request("schema", db_engine, 200, r.ret, r.e, r.w)
                   ELSE Request("schema", db_engine, 500,
                            HTTPException(<<"str", HTTPException(r.ret.message)>>),
                            r.e, r.w)
    /\ UNCHANGED <<ex, nexec, failed, last>>
    /\ UNCHANGED <<splitVars, synthVars>>

Next ==
    \/ \E db_name \in DbNames : Connect(db_name)
    \/ Disconnect
    \/ \E sql_code \in ExecScripts, commit_raises \in BOOLEAN : Execute(sql_code, commit_raises)
    \/ GetSchema
    \/ \E c \in 1..Len(conns) : Finalize(c)

\* one SQLExecutor instance and the calls made on it
Spec == Init /\ [][Next]_vars

NextApi ==
    \/ \E db_engine \in Engines, text \in Descriptions : ApiNlToSql(db_engine, text)
    \/ \E db_engine \in Engines, image_opens \in BOOLEAN : ApiErToSql(db_engine, image_opens)
    \/ \E db_engine \in Engines, sql_code \in ExecScripts, commit_raises \in BOOLEAN :
          ApiExecuteSql(db_engine, sql_code, commit_raises)
    \/ \E db_engine \in Engines : ApiSchema(db_engine)
    \/ \E c \in 1..Len(conns) : Finalize(c)

\* the server: a sequence of API requests, each with its own converter or executor
SpecApi == Init /\ [][NextApi]_vars

----------------------------------------------------------------------------
(* Properties of SQLExecutor.execute *)

Ret == last.ret[1]

\* every effect of the script tagged tag that is on disk or in an open transaction
EffectsOf(tag) ==
    {eff \in UNION ({files[f] : f \in DOMAIN files}
                      \cup {conns[c].pending : c \in 1..Len(conns)}) : eff.x = tag}

SuccessEntries(log) == SelectSeq(log, LAMBDA en : en[1] = "Successfully executed: ")

\* C1: when the k-th statement is the first to raise, no later statement runs,
\* commit is not called, and execute returns success=false with the error text as
\* message and a log holding one 'Successfully executed' entry per earlier statement,
\* in order, and ending with the two entries of the failing statement.
C1_FirstErrorStops ==
    (last.op = "execute" /\ last.x.raised # 0) =>
        LET k == last.x.raised
            st == last.x.stmts
            log == Ret.log
        IN
        /\ k \in 1..Len(st)
        /\ last.x.ran = k
        /\ \A eff \in EffectsOf(last.x.tag) : eff.i < k
        /\ last.x.commits = 0
        /\ Ret.success = FALSE
        /\ Ret.message = last.x.err
        /\ SuccessEntries(log) =
               [i \in 1..(k - 1) |-> <<"Successfully executed: ", Trunc(st[i])>>]
        /\ Len(log) >= 2
        /\ log[Len(log) - 1] = <<"Error executing statement: ", Trunc(st[k])>>
        /\ log[Len(log)] = <<"Error message: ", last.x.err>>
        /\ \A j \in 1..(Len(log) - 2) :
               log[j][1] \in {"Successfully executed: ", "Retrieved rows"}

\* C1 witness: the second of three statements raised after the first one had run
C1_Witness ==
    /\ last.op = "execute"
    /\ last.x.raised = 2
    /\ Len(last.x.stmts) = 3
    /\ Len(Ret.log) = 3

\* C2: nothing a script wrote before its failing statement is ever committed to a
\* database file, whatever is called on the instance afterwards.
C2_FailedScriptDiscarded ==
    \A f \in DOMAIN files : \A eff \in files[f] : eff.x \notin failed

\* the statements whose trimmed text starts with SELECT, whatever the case
SelectIndexes(st) ==
    SelectSeq([i \in 1..Len(st) |-> i],
              LAMBDA i : LET t == Strip(st[i]) IN
                         /\ Len(t) >= 6
                         /\ Upper(SubSeq(t, 1, 6)) = <<"S", "E", "L", "E", "C", "T">>)

\* C3 as stated: when no statement raises, commit is called once after the last
\* statement and execute returns success=true with one results entry per SELECT
\* statement, in script order.
C3_Original ==
    (last.op = "execute" /\ last.x.connected /\ last.x.raised = 0) =>
        /\ last.x.commits = 1
        /\ Ret.success = TRUE
        /\ [j \in 1..Len(Ret.results) |-> Ret.results[j].of] = SelectIndexes(last.x.stmts)

\* C3 amended: when no statement raises, commit is called once, after the last
\* statement; when that commit does not raise either, execute returns success=true
\* with exactly one {columns, rows} entry per SELECT statement, in script order, and
\* nothing of the script is left uncommitted; when it raises, execute returns
\* success=false with the commit's error as message.
C3_CommitOnceAndResults ==
    (last.op = "execute" /\ last.x.connected /\ last.x.raised = 0) =>
        /\ last.x.commits = 1
        /\ last.x.ran = Len(last.x.stmts)
        /\ last.x.err = "" =>
              /\ Ret.success = TRUE
              /\ [j \in 1..Len(Ret.results) |-> Ret.results[j].of]
                     = SelectIndexes(last.x.stmts)
              /\ \A j \in 1..Len(Ret.results) :
                     DOMAIN Ret.results[j] = {"of", "columns", "rows"}
              /\ \A c \in 1..Len(conns) :
                     \A eff \in conns[c].pending : eff.x # last.x.tag
        /\ last.x.err # "" =>
              /\ Ret.success = FALSE
              /\ Ret.message = last.x.err

\* C3 witness: a script of a lower-case select, a WITH query and an insert ran and
\* was committed, with one results entry
C3_Witness ==
    /\ last.op = "execute"
    /\ Ret.success
    /\ Len(last.x.stmts) = 3
    /\ Len(Ret.results) = 1
    /\ \E f \in DOMAIN files : \E eff \in files[f] : eff.x = last.x.tag

----------------------------------------------------------------------------
(* Properties of connect, disconnect and get_schema *)

OpenOwned(owner) == {c \in 1..Len(conns) : conns[c].open /\ conns[c].owner = owner}

\* C4: the instance never has more than one open connection.
C4_AtMostOneOpen == Cardinality(OpenOwned("inst")) <= 1

\* the temporary files the instance's connects created
InstanceTempFiles ==
    {conns[c].file : c \in {d \in 1..Len(conns) :
                               conns[d].owner = "inst" /\ conns[d].file.kind = "temp"}}

\* C5: after disconnect (called once, or again) the instance has no connection and
\* no temporary file it created is left on disk.
C5_DisconnectCleans ==
    last.op = "disconnect" =>
        /\ ex.db_connection = None
        /\ InstanceTempFiles \cap DOMAIN files = {}

\* C7: connect returns false for an unsupported engine and for a database that
\* cannot be opened; on the unsupported-engine path it changes neither field and
\* creates no file; execute on such an instance returns the connect failure without
\* running a statement.
C7_ConnectFailsClosed ==
    /\ last.op = "connect" => Ret \in BOOLEAN
    /\ (last.op = "connect" /\ ex.db_engine # "sqlite") =>
            /\ Ret = FALSE
            /\ ~last.changed
    /\ (last.op = "connect" /\ last.arg[1] = "/nodir/x.db") => Ret = FALSE
    /\ ex.db_engine # "sqlite" =>
            /\ ex.db_connection = None
            /\ ex.temp_db_file = NoFile
            /\ ntemp = 0
            /\ conns = <<>>
    /\ (last.op = "execute" /\ ex.db_engine # "sqlite") =>
            /\ Ret.success = FALSE
            /\ Ret.message = "Failed to connect to database"
            /\ Ret.log = <<>>
            /\ last.x.ran = 0
            /\ last.x.commits = 0
            /\ ~last.changed

\* C7 witness: execute was called on an instance of an unsupported engine
C7_Witness ==
    /\ last.op = "execute"
    /\ ex.db_engine = "mysql"
    /\ ~Ret.success

\* C8: get_schema on an instance without connection fails with "Not connected to a
\* database" and neither connects nor creates a file.
C8_GetSchemaNeverConnects ==
    (last.op = "get_schema" /\ ~last.hadconn) =>
        /\ Ret.success = FALSE
        /\ Ret.message = "Not connected to a database"
        /\ ~last.changed
        /\ ex.db_connection = None

\* C8 witness: get_schema was called after the instance's connection was closed
C8_Witness ==
    /\ last.op = "get_schema"
    /\ ~last.hadconn
    /\ ex.db_engine = "sqlite"
    /\ Len(conns) >= 1

----------------------------------------------------------------------------
(* Properties of the splitter *)

\* the stripped lines that are neither blank nor comments
KeptLines(lines) ==
    SelectSeq([i \in 1..Len(lines) |-> Strip(lines[i])],
              LAMBDA l : /\ l # <<>>
                         /\ l[1] # "#"
                         /\ ~(Len(l) >= 2 /\ l[1] = "-" /\ l[2] = "-"))

RECURSIVE JoinSpace(_)
JoinSpace(ls) ==
    IF Len(ls) = 1 THEN ls[1] ELSE ls[1] \o <<" ">> \o JoinSpace(Tail(ls))

\* the first kept line that ends a statement, or the last line when none does
StatementEnd(kept) ==
    IF \E j \in 1..Len(kept) : kept[j][Len(kept[j])] = ";"
    THEN CHOOSE j \in 1..Len(kept) :
            /\ kept[j][Len(kept[j])] = ";"
            /\ \A h \in 1..(j - 1) : kept[h][Len(kept[h])] # ";"
    ELSE Len(kept)

RECURSIVE Groups(_)
Groups(kept) ==
    IF kept = <<>> THEN <<>>
    ELSE LET j == StatementEnd(kept) IN
         <<JoinSpace(SubSeq(kept, 1, j))>> \o Groups(SubSeq(kept, j + 1, Len(kept)))

\* C9: the statements are, in order, the runs of kept lines up to each kept line
\* ending with ';' plus a non-empty remainder, each joined by single spaces; none is
\* empty; "SELECT 1;\n-- comment\nSELECT 2;" gives exactly its two statements.
C9_SplitIsGrouping ==
    splitOut[1] = "done" =>
        /\ splitOut[2] = Groups(KeptLines(splitLines))
        /\ \A i \in 1..Len(splitOut[2]) : splitOut[2][i] # <<>>
        /\ splitLines = <<L_select1, L_comment, L_select2>> =>
               splitOut[2] = <<L_select1, L_select2>>

\* C9 witness: a script with a '#' line, a statement over two lines and an
\* unterminated remainder was split
C9_Witness ==
    /\ splitOut[1] = "done"
    /\ splitLines = <<L_hash, L_insertOpen, L_value>>
    /\ Len(splitOut[2]) = 1

----------------------------------------------------------------------------
(* Properties of the API handlers *)

\* C6: when an execute-sql or schema handler has returned, the connection it opened
\* is closed and the temporary file it created is gone.
C6_HandlerCleansUp ==
    (resp.endpoint \in {"execute-sql", "schema"} /\ resp.conn # None) =>
        /\ ~conns[resp.conn].open
        /\ resp.temp \notin DOMAIN files

\* C10: a request naming an engine other than sqlite is answered with HTTP 500.
C10_UnsupportedEngineIs500 ==
    (resp.endpoint # "none" /\ resp.db_engine # "sqlite") => resp.status = 500

\* the rows of the result sets an execute-sql response carries
ResponseRows ==
    IF resp.body.results = <<>> THEN {}
    ELSE UNION {resp.body.results[1][k].rows : k \in 1..Len(resp.body.results[1])}

\* C11: every execute-sql or schema request with db_engine "sqlite" runs on its own
\* connection to a temporary file no other connection has; every schema request is
\* answered with success and an empty tables list; no execute-sql request returns a
\* row, or leaves in its database a table or row, that another request wrote.
C11_RequestsIsolated ==
    (resp.endpoint \in {"execute-sql", "schema"} /\ resp.db_engine = "sqlite") =>
        /\ resp.conn # None
        /\ resp.temp.kind = "temp"
        /\ conns[resp.conn].file = resp.temp
        /\ \A d \in 1..Len(conns) : d # resp.conn => conns[d].file # resp.temp
        /\ resp.endpoint = "schema" =>
               /\ resp.status = 200
               /\ resp.body.success
               /\ resp.body.tables = {}
        /\ resp.endpoint = "execute-sql" =>
               /\ \A r \in ResponseRows : r.x = nexec
               /\ \A r \in Committed(World, resp.temp) \cup conns[resp.conn].pending :
                      r.x = nexec

\* C11 witness: a schema request was answered while the temporary database of an
\* earlier request holds a table
C11_Witness ==
    /\ resp.endpoint = "schema"
    /\ resp.db_engine = "sqlite"
    /\ resp.status = 200
    /\ \E f \in DOMAIN files : \E t \in files[f] : t.kind = "ddl"

----------------------------------------------------------------------------
(* Properties of the SQL synthesizers *)

Out == synthOut[2]

\* how many times the fragment occurs in the text
Count(text, frag) == Cardinality({i \in 1..Len(text) : text[i] = frag})

\* where the text holds the fragments of part one after the other
Places(text, part) ==
    {i \in 1..(Len(text) - Len(part) + 1) : SubSeq(text, i, i + Len(part) - 1) = part}

\* the pieces of the text between the occurrences of the separator fragment
RECURSIVE Pieces(_, _)
Pieces(text, sep) ==
    IF text = <<>> THEN <<>>
    ELSE IF \A i \in 1..Len(text) : text[i] # sep THEN <<text>>
    ELSE LET j == CHOOSE i \in 1..Len(text) :
                      text[i] = sep /\ \A k \in 1..(i - 1) : text[k] # sep
         IN <<SubSeq(text, 1, j - 1)>> \o Pieces(SubSeq(text, j + 1, Len(text)), sep)

\* the text adds the column entity2_id, closed by column_end, to entity1 and then a
\* foreign key to entity1
AddsForeignKey(text, relationship, column_end) ==
    Places(text, <<"ALTER TABLE ", relationship.entity1, " ADD COLUMN ",
                   relationship.entity2, column_end,
                   "ALTER TABLE ", relationship.entity1, " ADD FOREIGN KEY (">>) # {}

\* C12: for a many_to_one relationship each of the two converters emits ALTER TABLE
\* entity1 ADD COLUMN entity2_id INTEGER; followed by ALTER TABLE entity1 ADD FOREIGN
\* KEY; for one_to_one the same with UNIQUE on the added column; UNIQUE appears for
\* no other type.
C12_ForeignKeyInBoth ==
    synthOut[1] = "done" =>
        \A i \in 1..Len(synthIn.relationships) :
            \A text \in {Out.nl_rels[i], Out.er_rels[i]} :
                LET relationship == synthIn.relationships[i] IN
                /\ relationship.type = "many_to_one" =>
                       AddsForeignKey(text, relationship, "_id INTEGER;\n")
                /\ relationship.type = "one_to_one" =>
                       AddsForeignKey(text, relationship, "_id INTEGER UNIQUE;\n")
                /\ relationship.type # "one_to_one" =>
                       Count(text, "_id INTEGER UNIQUE;\n") = 0

\* the clauses between the parentheses of a CREATE TABLE statement
Clauses(table) == Pieces(SubSeq(table, 4, Len(table) - 1), ",\n")

PrimaryKeyNames(entity) ==
    LET primary == SelectSeq(entity.attributes, LAMBDA a : a.is_primary_key)
    IN [i \in 1..Len(primary) |-> <<primary[i].name>>]

\* C13: the CREATE TABLE statement of an entity with N attributes has N column
\* clauses in attribute order, each with NOT NULL iff is_nullable is false, then one
\* PRIMARY KEY clause listing the primary-key attributes in attribute order iff there
\* is one, and no PRIMARY KEY clause otherwise; both converters emit that statement.
C13_CreateTableClauses ==
    synthOut[1] = "done" =>
        \A i \in 1..Len(synthIn.entities) :
            LET entity == synthIn.entities[i]
                table == Out.tables[i]
                N == Len(entity.attributes)
                keys == PrimaryKeyNames(entity)
                clauses == Clauses(table)
            IN
            /\ SubSeq(table, 1, 3) = <<"CREATE TABLE ", entity.name, " (\n">>
            /\ table[Len(table)] = "\n);\n\n"
            /\ Len(clauses) = N + (IF keys # <<>> THEN 1 ELSE 0)
            /\ \A k \in 1..N :
                   /\ SubSeq(clauses[k], 1, 4) =
                          <<"    ", entity.attributes[k].name, " ", entity.attributes[k].type>>
                   /\ Count(clauses[k], " NOT NULL") =
                          (IF entity.attributes[k].is_nullable THEN 0 ELSE 1)
                   /\ Len(clauses[k]) = 4 + Count(clauses[k], " NOT NULL")
            /\ Count(table, "    PRIMARY KEY (") = (IF keys # <<>> THEN 1 ELSE 0)
            /\ keys # <<>> =>
                   LET clause == clauses[N + 1] IN
                   /\ clause[1] = "    PRIMARY KEY ("
                   /\ clause[Len(clause)] = ")"
                   /\ Pieces(SubSeq(clause, 2, Len(clause) - 1), ", ") = keys
            /\ Places(Out.nl, table) # {}
            /\ Places(Out.er, table) # {}

\* C13 witness: a table with three attributes, two of them primary keys and one of
\* those nullable, was emitted
C13_Witness ==
    /\ synthOut[1] = "done"
    /\ Len(synthIn.entities) = 1
    /\ Len(synthIn.entities[1].attributes) = 3
    /\ Len(PrimaryKeyNames(synthIn.entities[1])) = 2
    /\ \E k \in 1..3 : /\ synthIn.entities[1].attributes[k].is_primary_key
                       /\ synthIn.entities[1].attributes[k].is_nullable

\* C14: for a many_to_many relationship between a and b each of the two converters
\* emits one table, named a_b, with the NOT NULL columns a_id and b_id, one primary
\* key over both and two foreign keys, to a(id) and to b(id); the text is the same
\* without the relationship's attributes, and whichever entities are declared.
C14_JunctionTable ==
    synthOut[1] = "done" =>
        \A i \in 1..Len(synthIn.relationships) :
            synthIn.relationships[i].type = "many_to_many" =>
                \A text \in {Out.nl_rels[i], Out.er_rels[i]} :
                    LET a == synthIn.relationships[i].entity1
                        b == synthIn.relationships[i].entity2
                    IN
                    /\ Count(text, "CREATE TABLE ") = 1
                    /\ SubSeq(text, 1, 5) = <<"CREATE TABLE ", a, "_", b, " (\n">>
                    /\ text[Len(text)] = ");\n\n"
                    /\ Count(text, "_id INTEGER NOT NULL,\n") = 2
                    /\ Places(text, <<"    ", a, "_id INTEGER NOT NULL,\n">>) # {}
                    /\ Places(text, <<"    ", b, "_id INTEGER NOT NULL,\n">>) # {}
                    /\ Count(text, "    PRIMARY KEY (") = 1
                    /\ Places(text, <<"    PRIMARY KEY (", a, "_id, ", b, "_id),\n">>) # {}
                    /\ Count(text, "    FOREIGN KEY (") = 2
                    /\ Places(text, <<"    FOREIGN KEY (", a, "_id) REFERENCES ", a,
                                      " (id),\n">>) # {}
                    /\ Places(text, <<"    FOREIGN KEY (", b, "_id) REFERENCES ", b,
                                      " (id)\n">>) # {}
                    /\ Count(text, "    ") = 2
                    /\ Places(Out.nl, text) # {}
                    /\ Places(Out.er, text) # {}

\* C14 witness: a junction table was emitted for a many_to_many relationship that
\* owns an attribute and names an entity the schema does not declare
C14_Witness ==
    /\ synthOut[1] = "done"
    /\ \E i \in 1..Len(synthIn.relationships) :
           /\ synthIn.relationships[i].type = "many_to_many"
           /\ synthIn.relationships[i].attributes # <<>>
           /\ \A k \in 1..Len(synthIn.entities) :
                  synthIn.entities[k].name # synthIn.relationships[i].entity2
           /\ Out.nl_rels[i] # <<>>

\* the schema without its one_to_many relationships
WithoutOneToMany(schema) ==
    [schema EXCEPT !.relationships = SelectSeq(schema.relationships,
                                               LAMBDA r : r.type # "one_to_many")]

\* the names that follow CREATE TABLE in the text, in order; a name is the fragments
\* up to the opening parenthesis
RECURSIVE TableNames(_)
TableNames(text) ==
    IF text = <<>> THEN <<>>
    ELSE IF Head(text) = "CREATE TABLE " THEN
        LET j == CHOOSE i \in 2..Len(text) :
                     text[i] = " (\n" /\ \A k \in 2..(i - 1) : text[k] # " (\n"
        IN <<SubSeq(text, 2, j - 1)>> \o TableNames(SubSeq(text, j + 1, Len(text)))
    ELSE TableNames(Tail(text))

\* the tables a converter has to emit: the entities in the given order, then the
\* junction tables of the many_to_many relationships in the given order
ExpectedTables(schema) ==
    LET junctions == SelectSeq(schema.relationships, LAMBDA r : r.type = "many_to_many")
    IN [i \in 1..Len(schema.entities) |-> <<schema.entities[i].name>>]
         \o [i \in 1..Len(junctions) |-> <<junctions[i].entity1, "_", junctions[i].entity2>>]

\* the places of the text where the statement of an entity starts
EntityPlaces(text, schema) ==
    UNION {Places(text, <<"CREATE TABLE ", schema.entities[i].name, " (\n">>) :
               i \in 1..Len(schema.entities)}

\* C15: for a one_to_many relationship each of the two converters emits the empty
\* string, so the output for a schema is the output for the schema without its
\* one_to_many relationships; the entities are emitted in the given order, and what
\* a relationship emits comes after the CREATE TABLE statement of every entity.
C15_OneToManyEmitsNothing ==
    synthOut[1] = "done" =>
        /\ \A i \in 1..Len(synthIn.relationships) :
               synthIn.relationships[i].type = "one_to_many" =>
                   Out.nl_rels[i] = <<>> /\ Out.er_rels[i] = <<>>
        /\ Out.nl = nl_generate_sql(WithoutOneToMany(synthIn))
        /\ Out.er = er_generate_sql(WithoutOneToMany(synthIn))
        /\ \A text \in {Out.nl, Out.er} :
               /\ TableNames(text) = ExpectedTables(synthIn)
               /\ \A i \in 1..Len(synthIn.relationships) :
                      \A rel_text \in {Out.nl_rels[i], Out.er_rels[i]} :
                          (rel_text # <<>> /\ Places(text, rel_text) # {}) =>
                              \A p \in Places(text, rel_text) :
                                  \A q \in EntityPlaces(text, synthIn) : q < p

\* C15 witness: a schema of two entities with a one_to_many relationship before
\* a relationship that emits DDL was converted
C15_Witness ==
    /\ synthOut[1] = "done"
    /\ Len(synthIn.entities) = 2
    /\ Len(synthIn.relationships) = 2
    /\ synthIn.relationships[1].type = "one_to_many"
    /\ Out.er_rels[2] # <<>>

\* the splitter on its own: a script is drawn and split
InitSplitter ==
    /\ ex = NewExecutor("sqlite")
    /\ conns = <<>>
    /\ files = [g \in {} |-> {}]
    /\ ntemp = 0
    /\ nexec = 0
    /\ failed = {}
    /\ last = [op |-> "init"]
    /\ resp = [endpoint |-> "none"]
    /\ InitSplit
    /\ synthIn = [entities |-> <<>>, relationships |-> <<>>]
    /\ synthOut = <<"idle">>

NextSplitter == RunSplit

SpecSplitter == InitSplitter /\ [][NextSplitter]_vars

\* the synthesizers on their own: a schema description is drawn and converted
InitSynthesizer ==
    /\ ex = NewExecutor("sqlite")
    /\ conns = <<>>
    /\ files = [g \in {} |-> {}]
    /\ ntemp = 0
    /\ nexec = 0
    /\ failed = {}
    /\ last = [op |-> "init"]
    /\ resp = [endpoint |-> "none"]
    /\ splitLines = <<>>
    /\ splitIn = <<>>
    /\ splitOut = <<"idle">>
    /\ InitSynth

NextSynthesizer == RunSynth

SpecSynthesizer == InitSynthesizer /\ [][NextSynthesizer]_vars

====
